---- MODULE Spec2Model ----
(***************************************************************************)
(* Model of app/scripts/analyze_parking_data.py: the module-level Firebase *)
(* initialisation, get_firestore_data, analyze_parking_data and the        *)
(* __main__ report loop.  One run of the script is one behaviour.          *)
(***************************************************************************)
EXTENDS Integers, Sequences, FiniteSets, TLC

VARIABLES
    pc,             \* position of the script
    lots_data,      \* the list returned by get_firestore_data()
    idx,            \* number of records the for-loop of line 27 has consumed
    popular_times,  \* the dict of line 25, as its insertion-ordered items
    f,              \* the file object of line 57: "none", "open" or "closed"
    out_file,       \* content of src/data/popularTimes.json on disk
    file_at_start,  \* history: content of the file when the process started
    stdout,         \* what has been printed
    ridx,           \* number of items the loop of line 65 has consumed
    error           \* the unhandled exception that ended the run, or "none"

vars == <<pc, lots_data, idx, popular_times, f, out_file, file_at_start,
          stdout, ridx, error>>

----------------------------------------------------------------------------
(* Bounds of the model.                                                    *)

\* Largest number of hour labels in one averageByHour mapping.
MaxHours == 2
\* Largest number of records in a multi-lot fetch.
MaxLots == 3

\* Number of slots of the dense series, range(24).
Hours == 24

----------------------------------------------------------------------------
(* Floats.  A float is the exact fraction [n, d] in lowest terms with      *)
(* d >= 0; d = 0 gives the two IEEE specials the script can produce from   *)
(* non-negative counts: Inf = 1/0 and NaN = 0/0.  Rounding to binary64 is  *)
(* monotone, so comparisons and maxima are those of the exact values.      *)

RECURSIVE Gcd(_, _)
Gcd(a, b) == IF b = 0 THEN a ELSE Gcd(b, a % b)

Abs(x) == IF x < 0 THEN -x ELSE x

Float(n, d) ==
    IF d = 0
    THEN [n |-> IF n = 0 THEN 0 ELSE IF n > 0 THEN 1 ELSE -1, d |-> 0]
    ELSE LET g == Gcd(Abs(n), Abs(d))
             s == IF d < 0 THEN -1 ELSE 1
         IN  [n |-> s * (n \div g), d |-> s * (d \div g)]

Zero == Float(0, 1)
Inf == Float(1, 0)
NaN == Float(0, 0)

\* pandas notna()
notna(x) == x # NaN

\* Series / scalar, element by element (numpy true division: x/0 is inf, 0/0 is nan)
FloatDiv(occupied, capacity) == Float(occupied, capacity)

\* Series * 100, element by element (nan * 100 is nan, inf * 100 is inf)
FloatMul(x, k) == Float(x.n * k, x.d)

\* a <= b for non-NaN floats
FloatLe(a, b) == a.n * b.d <= b.n * a.d

\* Series.max(): the largest value (the series holds no NaN, see update);
\* SeriesMin is Series.min(), the aggregate one method name away.
SeriesMin(s) ==
    LET vals == {s[h] : h \in DOMAIN s}
    IN  CHOOSE v \in vals : \A w \in vals : FloatLe(v, w)

SeriesMax(s) ==
    LET vals == {s[h] : h \in DOMAIN s}
    IN  CHOOSE v \in vals : \A w \in vals : FloatLe(w, v)

----------------------------------------------------------------------------
(* int(str): an optional sign followed by one or more decimal digits.      *)
(* A label is the sequence of its characters.  int also accepts            *)
(* surrounding whitespace and underscores between digits; no label of      *)
(* Labels has them.                                                        *)

Digits == {"0", "1", "2", "3", "4", "5", "6", "7", "8", "9"}

DigitVal(c) ==
    CASE c = "0" -> 0 [] c = "1" -> 1 [] c = "2" -> 2 [] c = "3" -> 3
      [] c = "4" -> 4 [] c = "5" -> 5 [] c = "6" -> 6 [] c = "7" -> 7
      [] c = "8" -> 8 [] c = "9" -> 9

HasSign(s) == Len(s) > 0 /\ s[1] \in {"+", "-"}

Body(s) == IF HasSign(s) THEN Tail(s) ELSE s

\* int(s) returns (TRUE) or raises ValueError (FALSE)
IntParses(s) == Len(Body(s)) > 0 /\ \A i \in 1..Len(Body(s)) : Body(s)[i] \in Digits

RECURSIVE DigitsVal(_)
DigitsVal(s) ==
    IF s = <<>> THEN 0
    ELSE 10 * DigitsVal(SubSeq(s, 1, Len(s) - 1)) + DigitVal(s[Len(s)])

int(s) == IF HasSign(s) /\ s[1] = "-" THEN -DigitsVal(Body(s)) ELSE DigitsVal(Body(s))

----------------------------------------------------------------------------
(* The documents of the lots collection.  A record is a function on the    *)
(* fields it has; an averageByHour mapping is a function from hour labels  *)
(* to counts.                                                              *)

Labels == {<<"8">>, <<"0", "8">>, <<"1", "2">>, <<"2", "4">>, <<"-", "1">>, <<"x">>}
Counts == {0, 50, 80}

HourMaps ==
    UNION {[S -> Counts] : S \in {T \in SUBSET Labels : Cardinality(T) <= MaxHours}}

Histories == {<<>>} \cup {[averageByHour |-> m] : m \in HourMaps}

Fields == {"name", "capacity", "permit", "count_now", "historicalData"}

Restrict(r, D) == [k \in D |-> r[k]]

\* One lot, every shape of record: any field may be absent, capacity may be 0.
RichRecords ==
    {Restrict([name |-> "A", capacity |-> c, permit |-> "Staff", count_now |-> 42,
               historicalData |-> hd], D) :
        c \in {0, 30, 100}, hd \in Histories, D \in SUBSET Fields}

\* Several lots, names may repeat.
NarrowMaps == {<<>>, [k \in {<<"8">>} |-> 50], [k \in {<<"1", "2">>} |-> 80],
               [k \in {<<"2", "4">>} |-> 50]}

NarrowRecords ==
    {[name |-> nm, capacity |-> 100, permit |-> "Staff", count_now |-> 42,
      historicalData |-> [averageByHour |-> m]] :
        nm \in {"A", "B"}, m \in NarrowMaps}
    \cup {[name |-> "B", capacity |-> 100, count_now |-> 42,
           historicalData |-> [averageByHour |-> [k \in {<<"8">>} |-> 50]]]}

SeqsUpTo(S, n) == UNION {[1..k -> S] : k \in 0..n}

LotLists == {<<r>> : r \in RichRecords} \cup SeqsUpTo(NarrowRecords, MaxLots)


----------------------------------------------------------------------------
(* Python dict, as the sequence of its items in insertion order.           *)

Keys(d) == {d[i].key : i \in 1..Len(d)}

Get(d, k) == d[CHOOSE i \in 1..Len(d) : d[i].key = k].value

\* d[k] = v moves an existing key to the end: the behaviour of an
\* OrderedDict with move_to_end, not of dict.
SetItemMoveToEnd(d, k, v) ==
    Append(SelectSeq(d, LAMBDA it : it.key # k), [key |-> k, value |-> v])

\* d[k] = v: an existing key keeps its position and takes the new value,
\* a new key is appended.
SetItem(d, k, v) ==
    IF k \in Keys(d)
    THEN [i \in 1..Len(d) |-> IF d[i].key = k THEN [key |-> k, value |-> v] ELSE d[i]]
    ELSE Append(d, [key |-> k, value |-> v])

----------------------------------------------------------------------------
(* The body of the for-loop of analyze_parking_data, lines 28-54.          *)

\* line 30: lot.get('historicalData', {}).get('averageByHour', {})
hourly_data(lot) ==
    IF "historicalData" \in DOMAIN lot
    THEN IF "averageByHour" \in DOMAIN lot["historicalData"]
         THEN lot["historicalData"]["averageByHour"]
         ELSE <<>>
    ELSE <<>>

\* lines 33-37: one data point per item of hourly_data.  The points are
\* indexed by the label they come from, which stands for their list position.
data_points(hd) == [l \in DOMAIN hd |-> [hour |-> int(l), occupied |-> hd[l]]]

\* DataFrame.empty
empty(df) == DOMAIN df = {}

\* line 40: df['occupancy_rate'] = (df['occupied'] / capacity) * 100
occupancy_rate(df, capacity) ==
    [l \in DOMAIN df |-> FloatMul(FloatDiv(df[l].occupied, capacity), 100)]

\* line 43: pd.Series(index=range(24), data=0.0)
full_hours == [h \in 0..(Hours - 1) |-> Zero]

\* line 45: df.set_index('hour')['occupancy_rate'], as its (index, value) rows
hourly_avg(df, rate) == [l \in DOMAIN df |-> [hour |-> df[l].hour, value |-> rate[l]]]

\* Series.update reindexes other like self, which raises ValueError when
\* other's index holds a label twice.
DuplicateIndex(other) ==
    \E l1, l2 \in DOMAIN other : l1 # l2 /\ other[l1].hour = other[l2].hour

\* A positional write full_hours.iloc[hour % 24] = value in place of the
\* index-aligned update: an hour outside 0..23 lands in a slot.
updateWrapped(self, other) ==
    [h \in DOMAIN self |->
        IF \E l \in DOMAIN other : other[l].hour % Hours = h /\ notna(other[l].value)
        THEN other[CHOOSE l \in DOMAIN other :
                       other[l].hour % Hours = h /\ notna(other[l].value)].value
        ELSE self[h]]

\* line 46: Series.update(other): aligned on self's index, the non-NA values
\* of other replace those of self; labels of other not in self are dropped.
update(self, other) ==
    [h \in DOMAIN self |->
        IF \E l \in DOMAIN other : other[l].hour = h /\ notna(other[l].value)
        THEN other[CHOOSE l \in DOMAIN other :
                       other[l].hour = h /\ notna(other[l].value)].value
        ELSE self[h]]

\* hourly_avg.tolist() in place of full_hours.tolist(): only the hours present.
tolistPresent(series) ==
    LET n == Cardinality({h \in DOMAIN series : series[h] # Zero})
    IN  [i \in 1..n |-> series[CHOOSE h \in DOMAIN series :
            series[h] # Zero /\ Cardinality({g \in DOMAIN series :
                                              g < h /\ series[g] # Zero}) = i - 1]]

\* line 49: Series.tolist(): the values in index order
tolist(series) == [i \in 1..Cardinality(DOMAIN series) |-> series[i - 1]]

\* lines 43-46: the series after the update
updated_hours(lot) ==
    LET df == data_points(hourly_data(lot))
    IN  update(full_hours, hourly_avg(df, occupancy_rate(df, lot["capacity"])))

\* lines 48-54: the summary stored under lot_name
summary(lot) ==
    [data            |-> tolist(updated_hours(lot)),
     max_occupancy   |-> SeriesMax(updated_hours(lot)),
     permit          |-> lot["permit"],
     current_occupancy |-> lot["count_now"],
     capacity        |-> lot["capacity"]]

\* The exception the loop body raises for this record, or "none", in the
\* order the body evaluates: lines 28, 29, 34, 46, 51, 52.
raises(lot) ==
    LET hd == hourly_data(lot)
    IN  IF "name" \notin DOMAIN lot THEN "KeyError"
        ELSE IF "capacity" \notin DOMAIN lot THEN "KeyError"
        ELSE IF \E l \in DOMAIN hd : ~IntParses(l) THEN "ValueError"
        ELSE IF empty(data_points(hd)) THEN "none"
        ELSE IF DuplicateIndex(data_points(hd)) THEN "ValueError"
        ELSE IF "permit" \notin DOMAIN lot THEN "KeyError"
        ELSE IF "count_now" \notin DOMAIN lot THEN "KeyError"
        ELSE "none"

----------------------------------------------------------------------------
(* Output: json.dump and the f-strings of the report.                      *)

\* json.dump(popular_times, f, indent=2): the members of the JSON object,
\* one <<key, value>> per item, in the dict's order.
json_dump(d) == [i \in 1..Len(d) |-> <<d[i].key, d[i].value>>]

\* The output file before the run: absent, or holding a previous run's text.
PreviousFiles ==
    {[exists |-> FALSE, text |-> <<>>],
     [exists |-> TRUE,
      text |-> <<<<"Old", [data |-> tolist(full_hours), max_occupancy |-> Zero,
                           permit |-> "Staff", current_occupancy |-> 1,
                           capacity |-> 10]>>>>]}

\* round-half-even of n/d, for n >= 0 and d > 0
RoundHalfEven(n, d) ==
    LET q == n \div d
        r == n % d
    IN  IF 2 * r < d THEN q
        ELSE IF 2 * r > d THEN q + 1
        ELSE IF q % 2 = 0 THEN q ELSE q + 1

\* f"{x:.1f}": the number of tenths printed, or "inf"
format_1f(x) ==
    IF x.d = 0 THEN [special |-> "inf", tenths |-> 0]
    ELSE [special |-> "", tenths |-> RoundHalfEven(10 * x.n, x.d)]

\* lines 66-68: the three lines printed for one item of results
block(lot_name, data) ==
    [kind |-> "block", lot_name |-> lot_name, permit |-> data.permit,
     occupancy |-> <<data.current_occupancy, data.capacity>>,
     max_rate |-> format_1f(data.max_occupancy)]

line(text) == [kind |-> "line", text |-> text]

----------------------------------------------------------------------------
(* The script.                                                             *)

Init ==
    /\ pc = "import"
    /\ lots_data = <<>>
    /\ idx = 0
    /\ popular_times = <<>>
    /\ f = "none"
    /\ out_file \in PreviousFiles
    /\ file_at_start = out_file
    /\ stdout = <<>>
    /\ ridx = 0
    /\ error = "none"

\* An unhandled exception ends the process; nothing else changes.
Raise(exc) ==
    /\ pc' = "error"
    /\ error' = exc
    /\ UNCHANGED <<lots_data, idx, popular_times, f, out_file, file_at_start,
                   stdout, ridx>>

\* lines 9-14: credentials.Certificate raises when the key file is missing or
\* malformed; the ValueError of initialize_app is swallowed.
InitFirebase ==
    /\ pc = "import"
    /\ \E outcome \in {"ok", "already_initialized", "bad_certificate"} :
          IF outcome = "bad_certificate"
          THEN Raise("IOError")
          ELSE /\ pc' = "main"
               /\ UNCHANGED <<lots_data, idx, popular_times, f, out_file,
                              file_at_start, stdout, ridx, error>>

\* A fetch placed inside the with-block of line 57: the file is already
\* opened for writing when the fetch raises.
FetchRaisesInsideWith ==
    /\ pc' = "error"
    /\ error' = "FetchError"
    /\ f' = "closed"
    /\ out_file' = [exists |-> TRUE, text |-> <<>>]
    /\ UNCHANGED <<lots_data, idx, popular_times, file_at_start, stdout, ridx>>

\* lines 18-20 raising: firestore.client() cannot authenticate, or stream()
\* cannot reach the collection.
FetchRaises == Raise("FetchError")

\* lines 16-25: get_firestore_data() consumes the whole stream into a list
\* before analyze_parking_data does anything else.
get_firestore_data ==
    /\ pc = "main"
    /\ \/ FetchRaises
       \/ /\ lots_data' \in LotLists
          /\ popular_times' = <<>>
          /\ idx' = 0
          /\ pc' = "loop"
          /\ UNCHANGED <<f, out_file, file_at_start, stdout, ridx, error>>

\* lines 27-54: one iteration of the for-loop
LoopBody ==
    /\ pc = "loop"
    /\ idx < Len(lots_data)
    /\ LET lot == lots_data[idx + 1]
       IN  IF raises(lot) # "none"
           THEN Raise(raises(lot))
           ELSE /\ idx' = idx + 1
                /\ popular_times' =
                      IF empty(data_points(hourly_data(lot)))
                      THEN popular_times
                      ELSE SetItem(popular_times, lot["name"], summary(lot))
                /\ UNCHANGED <<pc, lots_data, f, out_file, file_at_start,
                               stdout, ridx, error>>

\* line 57: open(..., 'w') truncates the file, or raises (missing directory,
\* no permission) and leaves it alone.
OpenFile ==
    /\ pc = "loop"
    /\ idx = Len(lots_data)
    /\ \/ Raise("OSError")
       \/ /\ f' = "open"
          /\ out_file' = [exists |-> TRUE, text |-> <<>>]
          /\ pc' = "dump"
          /\ UNCHANGED <<lots_data, idx, popular_times, file_at_start, stdout,
                         ridx, error>>

\* line 58 and the end of the with-block
Dump ==
    /\ pc = "dump"
    /\ out_file' = [exists |-> TRUE, text |-> json_dump(popular_times)]
    /\ f' = "closed"
    /\ pc' = "return"
    /\ UNCHANGED <<lots_data, idx, popular_times, file_at_start, stdout, ridx,
                   error>>

\* lines 59-60 and 63-64
Return ==
    /\ pc = "return"
    /\ stdout' = stdout \o <<line("Analysis complete! Results saved to popularTimes.json"),
                             line("Analysis Summary:")>>
    /\ ridx' = 0
    /\ pc' = "report"
    /\ UNCHANGED <<lots_data, idx, popular_times, f, out_file, file_at_start,
                   error>>

\* lines 65-68: one iteration over results.items()
ReportItem ==
    /\ pc = "report"
    /\ ridx < Len(popular_times)
    /\ stdout' = Append(stdout, block(popular_times[ridx + 1].key,
                                      popular_times[ridx + 1].value))
    /\ ridx' = ridx + 1
    /\ UNCHANGED <<pc, lots_data, idx, popular_times, f, out_file,
                   file_at_start, error>>

\* the end of the script: exit status 0
Exit ==
    /\ pc = "report"
    /\ ridx = Len(popular_times)
    /\ pc' = "exit"
    /\ UNCHANGED <<lots_data, idx, popular_times, f, out_file, file_at_start,
                   stdout, ridx, error>>

Next ==
    \/ InitFirebase
    \/ get_firestore_data
    \/ LoopBody
    \/ OpenFile
    \/ Dump
    \/ Return
    \/ ReportItem
    \/ Exit

Spec == Init /\ [][Next]_vars

TypeOK ==
    /\ pc \in {"import", "main", "loop", "dump", "return", "report", "exit", "error"}
    /\ idx \in 0..Len(lots_data)
    /\ f \in {"none", "open", "closed"}
    /\ ridx \in 0..Len(popular_times)

----------------------------------------------------------------------------
(* Vocabulary of the properties.                                           *)

Required == {"name", "capacity", "permit", "count_now"}

\* the records the loop has consumed so far
Consumed == 1..idx

NonEmpty(lot) == ~empty(data_points(hourly_data(lot)))

\* the consumed records that stored a summary under this name
Stored(nm) == {i \in Consumed : lots_data[i]["name"] = nm /\ NonEmpty(lots_data[i])}

Last(S) == CHOOSE i \in S : \A j \in S : j <= i
First(S) == CHOOSE i \in S : \A j \in S : i <= j

\* the record a stored summary comes from
SourceOf(nm) == lots_data[Last(Stored(nm))]

\* the integer values of the labels of a record's averageByHour
HoursOf(lot) == {int(l) : l \in DOMAIN hourly_data(lot)}

InRange(h) == h \in 0..(Hours - 1)

\* the record with the out-of-range labels of averageByHour removed
InRangeOnly(lot) ==
    [lot EXCEPT !["historicalData"] =
        [averageByHour |-> Restrict(hourly_data(lot),
                                    {l \in DOMAIN hourly_data(lot) : InRange(int(l))})]]

\* a record of the shape the data model gives: every required field, capacity > 0
WellFormed(lot) == Required \subseteq DOMAIN lot /\ lot["capacity"] > 0

AllZero(data) == Len(data) = Hours /\ \A i \in 1..Hours : data[i] = Zero

Blocks == SelectSeq(stdout, LAMBDA o : o.kind = "block")

Succeeded == pc \in {"return", "report", "exit"}

----------------------------------------------------------------------------
(* The claims.                                                             *)

\* C1: every fetched record whose averageByHour is absent or empty still has
\* a summary in the output mapping, with 24 zeros and max_occupancy 0.0
\* (stated for the records that carry every required field, so that the run
\* is one the data model allows).
C1_EmptyHistoryStillSummarised ==
    Succeeded =>
        \A i \in 1..Len(lots_data) :
            (WellFormed(lots_data[i]) /\ ~NonEmpty(lots_data[i])) =>
                /\ lots_data[i]["name"] \in Keys(popular_times)
                /\ AllZero(Get(popular_times, lots_data[i]["name"]).data)
                /\ Get(popular_times, lots_data[i]["name"]).max_occupancy = Zero

\* C2: a record with capacity 0 is either left out of the output or ends the
\* run before the output file is opened; its summary is never written and the
\* run never fails once the file is open.
C2_ZeroCapacityExcludedOrFatalBeforeOpen ==
    \A i \in 1..Len(lots_data) :
        ("capacity" \in DOMAIN lots_data[i] /\ lots_data[i]["capacity"] = 0) =>
            /\ \A k \in 1..Len(popular_times) : popular_times[k].value.capacity # 0
            /\ \A k \in 1..Len(out_file.text) : out_file.text[k][2].capacity # 0
            /\ pc = "error" => f = "none"

\* C3: a record lacking name, capacity, permit or count_now makes the run end
\* in a fatal error: nothing is returned and the output file is not written,
\* whatever else the record holds.
C3_MissingRequiredFieldIsFatal ==
    (\E i \in 1..Len(lots_data) : ~(Required \subseteq DOMAIN lots_data[i])) =>
        /\ pc \notin {"dump", "return", "report", "exit"}
        /\ f = "none"
        /\ out_file = file_at_start

\* C4: in every summary, data[h] is occupied[h] / capacity * 100 for an hour h
\* present in the record's averageByHour and 0 for an absent hour.
C4_DataIsRateAtPresentHours ==
    \A k \in 1..Len(popular_times) :
        LET lot == SourceOf(popular_times[k].key)
            hd  == hourly_data(lot)
            data == popular_times[k].value.data
        IN  \A h \in 0..(Hours - 1) :
                IF \E l \in DOMAIN hd : int(l) = h
                THEN \A l \in DOMAIN hd :
                        int(l) = h => data[h + 1] = Float(hd[l] * 100, lot["capacity"])
                ELSE data[h + 1] = Zero

\* C5: every summary's data has exactly 24 entries, entry h for hour h,
\* whichever hours the source mapping held.
C5_DataHas24EntriesInHourOrder ==
    /\ \A k \in 1..Len(popular_times) :
          LET data == popular_times[k].value.data
          IN  /\ Len(data) = Hours
              /\ DOMAIN data = 1..Hours
              /\ \A i \in DOMAIN data :
                    data[i] # Zero => (i - 1) \in HoursOf(SourceOf(popular_times[k].key))
    /\ (f = "closed" /\ error = "none") =>
          \A k \in 1..Len(out_file.text) : Len(out_file.text[k][2].data) = Hours

C5_Witness ==
    /\ pc = "exit"
    /\ \E k \in 1..Len(popular_times) :
          /\ Cardinality(HoursOf(SourceOf(popular_times[k].key))) = 2
          /\ popular_times[k].value.data[9] # Zero
          /\ popular_times[k].value.data[13] # Zero
          /\ Len(popular_times[k].value.data) = Hours

\* C6: every summary's max_occupancy is the largest of its 24 data values, and
\* is 0.0 when no hour of 0..23 is present.
C6_MaxOccupancyIsMaxOfData ==
    \A k \in 1..Len(popular_times) :
        LET v == popular_times[k].value
        IN  /\ \E i \in 1..Len(v.data) : v.data[i] = v.max_occupancy
            /\ \A i \in 1..Len(v.data) : FloatLe(v.data[i], v.max_occupancy)
            /\ (\A h \in HoursOf(SourceOf(popular_times[k].key)) : ~InRange(h))
                  => v.max_occupancy = Zero

C6_Witness ==
    \E k \in 1..Len(popular_times) :
        LET v == popular_times[k].value
        IN  /\ v.max_occupancy # Zero
            /\ \E i \in 1..Len(v.data) :
                  v.data[i] # Zero /\ v.data[i] # v.max_occupancy

\* C7: when the fetch fails the run aborts with the output file as it was
\* before the run; the file is opened only after the fetch has completed.
C7_FetchFailureLeavesFileUntouched ==
    /\ error = "FetchError" =>
          /\ pc = "error"
          /\ f = "none"
          /\ out_file = file_at_start
    /\ f # "none" => (pc \notin {"import", "main"} /\ error # "FetchError")

C7_Witness == error = "FetchError" /\ file_at_start.exists

\* C8: on a successful run the keys of the output mapping and the blocks of
\* the report follow the order of the fetched lots, one block per fetched lot
\* (stated for fetches of well-formed records).
C8_OneBlockPerFetchedLotInOrder ==
    (pc = "exit" /\ \A i \in 1..Len(lots_data) : WellFormed(lots_data[i])) =>
        /\ Len(Blocks) = Len(lots_data)
        /\ Len(popular_times) = Len(lots_data)
        /\ \A i \in 1..Len(lots_data) :
              /\ Blocks[i].lot_name = lots_data[i]["name"]
              /\ popular_times[i].key = lots_data[i]["name"]

\* C9: the output mapping holds one summary per name; the summary kept is that
\* of the last record of that name with a non-empty averageByHour, at the
\* position of the first such record.
C9_LastSummaryAtFirstPosition ==
    /\ \A j, k \in 1..Len(popular_times) :
          popular_times[j].key = popular_times[k].key => j = k
    /\ Keys(popular_times) = {lots_data[i]["name"] : i \in {j \in Consumed : NonEmpty(lots_data[j])}}
    /\ \A k \in 1..Len(popular_times) :
          popular_times[k].value = summary(SourceOf(popular_times[k].key))
    /\ \A j, k \in 1..Len(popular_times) :
          j < k => First(Stored(popular_times[j].key)) < First(Stored(popular_times[k].key))

C9_Witness ==
    /\ pc = "exit"
    /\ Len(lots_data) = 3
    /\ Len(popular_times) = 2
    /\ lots_data[1]["name"] = lots_data[3]["name"]
    /\ popular_times[1].key = lots_data[1]["name"]
    /\ popular_times[1].value = summary(lots_data[3])
    /\ popular_times[1].value # summary(lots_data[1])

\* C10: a label of averageByHour whose integer value is outside 0..23 changes
\* no entry of data and not max_occupancy; a record whose labels are all
\* outside 0..23 is still stored, with 24 zeros and max_occupancy 0.0.
C10_OutOfRangeHoursIgnored ==
    /\ \A k \in 1..Len(popular_times) :
          LET lot == SourceOf(popular_times[k].key)
              v   == popular_times[k].value
          IN  /\ v.data = tolist(updated_hours(InRangeOnly(lot)))
              /\ v.max_occupancy = SeriesMax(updated_hours(InRangeOnly(lot)))
              /\ (\A h \in HoursOf(lot) : ~InRange(h)) =>
                    (AllZero(v.data) /\ v.max_occupancy = Zero)
    /\ \A i \in Consumed :
          (NonEmpty(lots_data[i]) /\ \A h \in HoursOf(lots_data[i]) : ~InRange(h))
              => lots_data[i]["name"] \in Keys(popular_times)

C10_Witness ==
    /\ pc = "exit"
    /\ \E k \in 1..Len(popular_times) :
          LET lot == SourceOf(popular_times[k].key)
          IN  /\ HoursOf(lot) = {24, -1}
              /\ \A l \in DOMAIN hourly_data(lot) : hourly_data(lot)[l] > 0
              /\ lot["capacity"] > 0
              /\ AllZero(popular_times[k].value.data)

====
